---- MODULE Spec2Model ----
(***************************************************************************)
(* Short-link service: LinksService (createLink, resolve, recordClick),    *)
(* LinksController.redirect, FraudService.validate and the PostgreSQL      *)
(* store behind Prisma (tables links and clicks with their unique indexes).*)
(*                                                                         *)
(* Every action is one step of a call between two awaits: the store (or    *)
(* the fraud validator) answers and the JavaScript continuation runs to    *)
(* the next await.  Calls interleave freely at these points.               *)
(*                                                                         *)
(* Money is DECIMAL(10,2); a value is modelled by its number of hundredths *)
(* (0.05 is 5, 0.00 is 0).                                                 *)
(***************************************************************************)
EXTENDS Integers, Sequences, FiniteSets, TLC

\* ---------------------------------------------------------------- bounds
\* Number of calls (requests) a behaviour holds.
MaxCalls == 2
\* Latest timestamp the store clock reaches (timestamps are 0..MaxTime).
MaxTime == 1

Procs == 1..MaxCalls
\* Target URLs the callers ask for.
Urls == {"u1", "u2"}
\* Values nanoid(8) can return; two are enough for collisions to happen.
Codes == {"c1", "c2"}
\* Pagination arguments of getStats (validated upstream: page >= 1, limit >= 1).
Pages == {1, 2}
Limits == {1, 2}
\* Timestamp 0 lies in December 2025; one tick of the store clock is one month,
\* so equal timestamps stand for instants of the same month (ties included).
FirstMonth == 2025 * 12 + 11

\* ------------------------------------------------------- program constants
maxRetries == 3
ValidCredit == 5
InvalidCredit == 0
HttpCreated == 201
HttpOk == 200
HttpFound == 302
HttpNotFound == 404
HttpServerError == 500

\* ------------------------------------------------------------------ state
VARIABLES
    links,   \* table links, in insertion order: [id, shortCode, targetUrl, createdAt]
    clicks,  \* table clicks, in insertion order: [id, linkId, isValid, earnedCredit, clickedAt]
    calls    \* one record per call: its operation, position, locals and outcome

vars == <<links, clicks, calls>>

NoLink == [id |-> 0, shortCode |-> "", targetUrl |-> "", createdAt |-> 0]
NoResult == [shortCode |-> "", targetUrl |-> "", isNew |-> FALSE]
NoPosted == [status |-> 0, shortUrl |-> "", targetUrl |-> ""]
NoResponse == [status |-> 0, location |-> ""]
NoSum == [isNull |-> TRUE, cents |-> 0]
NoMeta == [page |-> 0, limit |-> 0, totalItems |-> 0, totalPages |-> 0]
NoStats == [data |-> <<>>, meta |-> NoMeta]

IdleCall ==
    [op |-> "none", pc |-> "idle",
     targetUrl |-> "", shortCode |-> "",
     attempt |-> 0,            \* loop variable of createLink
     inserts |-> <<>>,         \* what the store answered to each link.create of this call
     outcome |-> "pending",    \* of the service call: pending, returned, failed
     error |-> "none",         \* the error a failed call threw
     result |-> NoResult,      \* what createLink returned
     after |-> {},             \* createLink calls that had returned when this one started
     createdLinkId |-> 0,      \* id of the link this call inserted
     response |-> NoResponse,  \* what the redirect handler sent to the client
     handlerDone |-> FALSE,    \* the redirect handler has completed
     resolved |-> "",          \* target URL resolve() returned to the handler
     linkId |-> 0,             \* id of the link recordClick found
     validatorCalls |-> 0,     \* invocations of FraudService.validate by this call
     validation |-> "none",    \* none, valid, invalid, failed
     earnedCredit |-> 0,       \* credit computed by recordClick (hundredths)
     clickId |-> 0,            \* id of the click this call persisted
     recording |-> "none",     \* none, running, dropped, recorded, failed
     logged |-> FALSE,         \* the handler's catch logged a recording failure
     rejection |-> "none",     \* what made the recording fail
     posted |-> NoPosted,      \* what POST /links answered
     page |-> 0, limit |-> 0,  \* arguments of getStats
     reads |-> {},             \* queries of the first Promise.all still unanswered
     pageLinks |-> <<>>,       \* rows findMany returned
     totalItems |-> 0,         \* what count() returned
     items |-> <<>>,           \* per link of the page: progress and query results
     stats |-> NoStats]        \* what getStats returned

\* ------------------------------------------------------------------ store
\* Mutant: the lookup without its where clause (findFirst): any link is returned.
FindFirstLink(ls, url) == IF Len(ls) > 0 THEN ls[1] ELSE NoLink

\* prisma.link.findUnique({ where: { targetUrl } })
FindUniqueByTargetUrl(ls, url) ==
    IF \E i \in DOMAIN ls : ls[i].targetUrl = url
    THEN ls[CHOOSE i \in DOMAIN ls : ls[i].targetUrl = url]
    ELSE NoLink

\* Mutant: the lookup by code without its where clause: the latest link.
FindLatestLink(ls, code) == IF Len(ls) > 0 THEN ls[Len(ls)] ELSE NoLink

\* prisma.link.findUnique({ where: { shortCode } })
FindUniqueByShortCode(ls, code) ==
    IF \E i \in DOMAIN ls : ls[i].shortCode = code
    THEN ls[CHOOSE i \in DOMAIN ls : ls[i].shortCode = code]
    ELSE NoLink

\* Mutant: no unique index on short_code.
ShortCodeNeverTaken(ls, code) == FALSE

\* unique index links_short_code_key
ShortCodeTaken(ls, code) == \E i \in DOMAIN ls : ls[i].shortCode = code

\* Mutant: no unique index on target_url.
TargetUrlNeverTaken(ls, url) == FALSE

\* unique index links_target_url_key
TargetUrlTaken(ls, url) == \E i \in DOMAIN ls : ls[i].targetUrl = url

\* What prisma.link.create can answer for (code, url): "ok", a P2002 whose
\* meta.target names the violated unique index, or another failure.  When both
\* indexes are violated the error names one of them.
CreateOutcomes(ls, code, url) ==
    LET violated == (IF ShortCodeTaken(ls, code) THEN {"short_code"} ELSE {})
                    \cup (IF TargetUrlTaken(ls, url) THEN {"target_url"} ELSE {})
    IN  (IF violated = {} THEN {"ok"} ELSE violated) \cup {"other"}

\* The store clock: never behind a timestamp it has already given out.
Latest(ls, cs) ==
    LET used == {ls[i].createdAt : i \in DOMAIN ls} \cup {cs[i].clickedAt : i \in DOMAIN cs}
    IN  IF used = {} THEN 0 ELSE CHOOSE t \in used : \A u \in used : u <= t

\* Row inserted into links (id SERIAL, created_at DEFAULT CURRENT_TIMESTAMP).
NewLink(ls, code, url, t) ==
    [id |-> Len(ls) + 1, shortCode |-> code, targetUrl |-> url, createdAt |-> t]

\* Row inserted into clicks (id SERIAL, clicked_at DEFAULT CURRENT_TIMESTAMP).
NewClick(cs, linkId, isValid, credit, t) ==
    [id |-> Len(cs) + 1, linkId |-> linkId, isValid |-> isValid,
     earnedCredit |-> credit, clickedAt |-> t]

\* Mutant: the write updates the latest row in place of adding one.
UpdateLatestLink(ls, link) ==
    IF ls = <<>> THEN <<link>> ELSE [ls EXCEPT ![Len(ls)] = link]

\* prisma.link.create: INSERT INTO links.
InsertLink(ls, link) == Append(ls, link)

\* prisma.click.create: INSERT INTO clicks.
InsertClick(cs, click) == Append(cs, click)

\* ------------------------------------------------------------- createLink
\* Mutant: an existing link is reported as new.
DedupResultNew(existing) ==
    [shortCode |-> existing.shortCode, targetUrl |-> existing.targetUrl, isNew |-> TRUE]

\* return { shortCode: existing.shortCode, targetUrl: existing.targetUrl, isNew: false }
DedupResult(existing) ==
    [shortCode |-> existing.shortCode, targetUrl |-> existing.targetUrl, isNew |-> FALSE]

\* Mutant: the created link is reported as an existing one.
CreatedResultNotNew(link) ==
    [shortCode |-> link.shortCode, targetUrl |-> link.targetUrl, isNew |-> FALSE]

\* return { shortCode: link.shortCode, targetUrl: link.targetUrl, isNew: true }
CreatedResult(link) ==
    [shortCode |-> link.shortCode, targetUrl |-> link.targetUrl, isNew |-> TRUE]

\* Mutant: the catch looks for the field name 'targetUrl', which the error never carries.
IsTargetUrlConflictWrongKey(answer) == answer = "targetUrl"

\* Array.isArray(target) && target.includes('target_url')
IsTargetUrlConflict(answer) == answer = "target_url"

\* Mutant: every failed insert is taken for a unique violation.
IsUniqueViolationAlways(answer) == TRUE

\* error instanceof PrismaClientKnownRequestError && error.code === 'P2002'
IsUniqueViolation(answer) == answer \in {"short_code", "target_url"}

\* Mutant: the result of the first lookup is ignored.
LookupHitIgnored(existing) == FALSE

\* if (existing) after the first lookup
LookupHit(existing) == existing # NoLink

\* Mutant: the result of the re-read is ignored.
RereadHitIgnored(existing) == FALSE

\* if (existing) after the re-read in the catch
RereadHit(existing) == existing # NoLink

\* Mutant: the last attempt is recognised one pass too early.
IsLastAttemptEarly(attempt) == attempt = maxRetries - 2

\* if (attempt === maxRetries - 1) throw error
IsLastAttempt(attempt) == attempt = maxRetries - 1

Returned(c, r) == [c EXCEPT !.pc = "done", !.outcome = "returned", !.result = r]

Thrown(c, e) == [c EXCEPT !.pc = "done", !.outcome = "failed", !.error = e]

\* The collision branch: warn, rethrow on the last attempt, else continue the
\* loop (attempt++, attempt < maxRetries) or fall out of it into the final throw.
AfterCollision(c) ==
    IF IsLastAttempt(c.attempt) THEN Thrown(c, "P2002")
    ELSE IF c.attempt + 1 < maxRetries
         THEN [c EXCEPT !.attempt = c.attempt + 1, !.pc = "cl_insert"]
         ELSE Thrown([c EXCEPT !.attempt = c.attempt + 1], "Exhausted")

\* process.env.BASE_URL as the README's .env sets it.
BASE_URL == "http://localhost:3000"

\* process.env.BASE_URL || 'http://localhost:3000'
BaseUrl(env) == IF env = "" THEN "http://localhost:3000" ELSE env

\* Mutant: the handler answers 201 Created whatever createLink reported.
PostLinksAlwaysCreated(result) ==
    [status |-> HttpCreated,
     shortUrl |-> BaseUrl(BASE_URL) \o "/" \o result.shortCode,
     targetUrl |-> result.targetUrl]

\* res.status(result.isNew ? CREATED : OK).json({ shortUrl, targetUrl })
PostLinksResponse(result) ==
    [status |-> IF result.isNew THEN HttpCreated ELSE HttpOk,
     shortUrl |-> BaseUrl(BASE_URL) \o "/" \o result.shortCode,
     targetUrl |-> result.targetUrl]

\* createLink returns to the POST /links handler, which answers.
PostLinksReturned(c, r) == [Returned(c, r) EXCEPT !.posted = PostLinksResponse(r)]

ReturnedCreateLinks ==
    {q \in Procs : calls[q].op = "createLink" /\ calls[q].outcome = "returned"}

\* Calls are taken from the lowest free slot.
CanStart(p) == calls[p].pc = "idle" /\ \A q \in Procs : q < p => calls[q].pc # "idle"

\* POST /links arrives: the handler calls createLink(targetUrl), whose lookup
\* query is issued.
StartCreateLink(p) ==
    /\ CanStart(p)
    /\ \E url \in Urls :
         calls' = [calls EXCEPT ![p] =
                     [IdleCall EXCEPT !.op = "createLink", !.pc = "cl_lookup",
                                      !.targetUrl = url, !.after = ReturnedCreateLinks]]
    /\ UNCHANGED <<links, clicks>>

\* The lookup answers: return the existing link, or enter the retry loop.
CreateLinkLookup(p) ==
    /\ calls[p].pc = "cl_lookup"
    /\ \E fault \in BOOLEAN :
         LET c == calls[p]
             existing == FindUniqueByTargetUrl(links, c.targetUrl)
         IN  calls' = [calls EXCEPT ![p] =
                 IF fault THEN Thrown(c, "Other")
                 ELSE IF LookupHit(existing) THEN PostLinksReturned(c, DedupResult(existing))
                 ELSE [c EXCEPT !.pc = "cl_insert"]]
    /\ UNCHANGED <<links, clicks>>

\* One pass of the loop body: nanoid(8), prisma.link.create and the catch up
\* to its next await.
CreateLinkInsert(p) ==
    /\ calls[p].pc = "cl_insert"
    /\ \E code \in Codes :
       \E answer \in CreateOutcomes(links, code, calls[p].targetUrl) :
       \E t \in Latest(links, clicks)..MaxTime :
         LET c == [calls[p] EXCEPT !.inserts = Append(@, answer)]
             link == NewLink(links, code, c.targetUrl, t)
         IN  IF answer = "ok"
             THEN /\ links' = InsertLink(links, link)
                  /\ calls' = [calls EXCEPT ![p] =
                        PostLinksReturned([c EXCEPT !.createdLinkId = link.id],
                                          CreatedResult(link))]
             ELSE /\ links' = links
                  /\ calls' = [calls EXCEPT ![p] =
                        IF ~IsUniqueViolation(answer) THEN Thrown(c, "Other")
                        ELSE IF IsTargetUrlConflict(answer) THEN [c EXCEPT !.pc = "cl_reread"]
                        ELSE AfterCollision(c)]
    /\ UNCHANGED clicks

\* The re-read after a target_url violation answers.
CreateLinkReread(p) ==
    /\ calls[p].pc = "cl_reread"
    /\ \E fault \in BOOLEAN :
         LET c == calls[p]
             existing == FindUniqueByTargetUrl(links, c.targetUrl)
         IN  calls' = [calls EXCEPT ![p] =
                 IF fault THEN Thrown(c, "Other")
                 ELSE IF RereadHit(existing) THEN PostLinksReturned(c, DedupResult(existing))
                 ELSE AfterCollision(c)]
    /\ UNCHANGED <<links, clicks>>

\* ------------------------------------------------- redirect and recordClick
\* GET /:shortCode arrives: the handler calls resolve(), whose lookup is issued.
StartRedirect(p) ==
    /\ CanStart(p)
    /\ \E code \in Codes :
         calls' = [calls EXCEPT ![p] =
                     [IdleCall EXCEPT !.op = "redirect", !.pc = "rd_resolve",
                                      !.shortCode = code,
                                      !.after = ReturnedCreateLinks]]
    /\ UNCHANGED <<links, clicks>>

\* recordClick(shortCode) is called on the service directly.
StartRecordClick(p) ==
    /\ CanStart(p)
    /\ \E code \in Codes :
         calls' = [calls EXCEPT ![p] =
                     [IdleCall EXCEPT !.op = "recordClick", !.pc = "rc_lookup",
                                      !.shortCode = code, !.recording = "running"]]
    /\ UNCHANGED <<links, clicks>>

\* Mutant: the recording is dispatched before resolve() is awaited, so it runs
\* although the handler threw.
HandlerThrewAfterDispatch(c, e) ==
    [c EXCEPT !.outcome = "failed", !.error = e, !.handlerDone = TRUE,
        !.response = [status |-> IF e = "NotFound" THEN HttpNotFound ELSE HttpServerError,
                      location |-> ""],
        !.recording = "running", !.pc = "rc_lookup"]

\* An exception leaves the handler before anything was sent: the framework
\* answers 404 for NotFoundException and 500 for any other error.
HandlerThrew(c, e) ==
    [Thrown(c, e) EXCEPT !.handlerDone = TRUE,
        !.response = [status |-> IF e = "NotFound" THEN HttpNotFound ELSE HttpServerError,
                      location |-> ""]]

\* Mutant: resolve returns the wrong column of the row.
ResolvedShortCode(link) == link.shortCode

\* return link.targetUrl
ResolvedUrl(link) == link.targetUrl

\* Mutant: resolve runs the fraud validation itself before it returns.
ResolvedAndValidated(c, link) ==
    [c EXCEPT !.pc = "rd_respond", !.outcome = "returned",
              !.resolved = ResolvedUrl(link), !.linkId = link.id,
              !.validatorCalls = c.validatorCalls + 1]

\* resolve() returns to the handler.
Resolved(c, link) ==
    [c EXCEPT !.pc = "rd_respond", !.outcome = "returned",
              !.resolved = ResolvedUrl(link)]

\* resolve(): the lookup answers; NotFoundException when there is no link.
RedirectResolve(p) ==
    /\ calls[p].pc = "rd_resolve"
    /\ \E fault \in BOOLEAN :
         LET c == calls[p]
             link == FindUniqueByShortCode(links, c.shortCode)
         IN  calls' = [calls EXCEPT ![p] =
                 IF fault THEN HandlerThrew(c, "Other")
                 ELSE IF link = NoLink THEN HandlerThrew(c, "NotFound")
                 ELSE Resolved(c, link)]
    /\ UNCHANGED <<links, clicks>>

\* Mutant: the handler redirects and never calls recordClick.
RedirectedOnly(c) ==
    [c EXCEPT !.response = [status |-> HttpFound, location |-> c.resolved],
              !.pc = "done", !.handlerDone = TRUE]

\* Mutant: the handler awaits recordClick before it redirects.
DispatchedAwaited(c) == [c EXCEPT !.recording = "running", !.pc = "rc_lookup"]

\* res.redirect(HttpStatus.FOUND, targetUrl); this.linksService.recordClick(shortCode)
\* .catch(...): the response is sent, recordClick runs up to its first await (its
\* lookup is issued) and the handler completes without awaiting it.
Dispatched(c) ==
    [c EXCEPT !.response = [status |-> HttpFound, location |-> c.resolved],
              !.recording = "running", !.pc = "rc_lookup", !.handlerDone = TRUE]

\* The handler's continuation after resolve() returned.
RedirectRespond(p) ==
    /\ calls[p].pc = "rd_respond"
    /\ calls' = [calls EXCEPT ![p] = Dispatched(calls[p])]
    /\ UNCHANGED <<links, clicks>>

\* Mutant: no catch on the detached promise, the rejection reaches the handler.
RecordingFailedPropagates(c, e) == [HandlerThrew(c, e) EXCEPT !.recording = "failed"]

\* recordClick rejects.  Under the redirect handler the promise's catch logs the
\* error; a direct caller gets the rejection.
RecordingFailed(c, e) ==
    IF c.op = "redirect"
    THEN [c EXCEPT !.pc = "done", !.recording = "failed", !.logged = TRUE,
                   !.rejection = e]
    ELSE [Thrown(c, e) EXCEPT !.recording = "failed", !.rejection = e]

\* Mutant: a click on an unknown code is reported as an error, as resolve does.
RecordingEndedThrows(c, how) ==
    IF how = "dropped"
    THEN [Thrown(c, "NotFound") EXCEPT !.recording = how, !.logged = (c.op = "redirect")]
    ELSE IF c.op = "redirect"
    THEN [c EXCEPT !.pc = "done", !.recording = how]
    ELSE [c EXCEPT !.pc = "done", !.recording = how, !.outcome = "returned"]

\* recordClick resolves (a click was persisted, or the event was dropped).
RecordingEnded(c, how) ==
    IF c.op = "redirect"
    THEN [c EXCEPT !.pc = "done", !.recording = how]
    ELSE [c EXCEPT !.pc = "done", !.recording = how, !.outcome = "returned"]

\* recordClick's lookup answers: no link, return; else FraudService.validate()
\* is invoked.
RecordClickLookup(p) ==
    /\ calls[p].pc = "rc_lookup"
    /\ \E fault \in BOOLEAN :
         LET c == calls[p]
             link == FindUniqueByShortCode(links, c.shortCode)
         IN  calls' = [calls EXCEPT ![p] =
                 IF fault THEN RecordingFailed(c, "Other")
                 ELSE IF link = NoLink THEN RecordingEnded(c, "dropped")
                 ELSE [c EXCEPT !.pc = "rc_validate", !.linkId = link.id,
                                !.validatorCalls = c.validatorCalls + 1]]
    /\ UNCHANGED <<links, clicks>>

\* What FraudService.validate() can answer: Math.random() < 0.5, or (a
\* substituted validator) a rejection.
ValidatorAnswers == {"valid", "invalid", "failed"}

\* Mutant: the credit is granted whatever the validator said.
EarnedCreditAlways(isValid) == ValidCredit

\* isValid ? new Prisma.Decimal('0.05') : new Prisma.Decimal('0.00')
EarnedCredit(isValid) == IF isValid THEN ValidCredit ELSE InvalidCredit

\* Mutant: a rejection of the validator is taken for an answer.
ValidatorFailedNever(answer) == FALSE

\* await this.fraudService.validate() rejects: recordClick rejects with it.
ValidatorFailed(answer) == answer = "failed"

\* The validator answers; the credit is computed and prisma.click.create issued.
RecordClickValidate(p) ==
    /\ calls[p].pc = "rc_validate"
    /\ \E answer \in ValidatorAnswers :
         LET c == calls[p] IN
         calls' = [calls EXCEPT ![p] =
             IF ValidatorFailed(answer)
             THEN RecordingFailed([c EXCEPT !.validation = "failed"], "Validator")
             ELSE [c EXCEPT !.pc = "rc_insert", !.validation = answer,
                            !.earnedCredit = EarnedCredit(answer = "valid")]]
    /\ UNCHANGED <<links, clicks>>

\* foreign key clicks_link_id_fkey
LinkExists(ls, id) == \E i \in DOMAIN ls : ls[i].id = id

\* prisma.click.create answers.
RecordClickInsert(p) ==
    /\ calls[p].pc = "rc_insert"
    /\ \E fault \in BOOLEAN :
       \E t \in Latest(links, clicks)..MaxTime :
         LET c == calls[p]
             click == NewClick(clicks, c.linkId, c.validation = "valid", c.earnedCredit, t)
         IN  IF fault \/ ~LinkExists(links, c.linkId)
             THEN /\ clicks' = clicks
                  /\ calls' = [calls EXCEPT ![p] =
                        RecordingFailed(c, IF fault THEN "Other" ELSE "ForeignKey")]
             ELSE /\ clicks' = InsertClick(clicks, click)
                  /\ calls' = [calls EXCEPT ![p] =
                        RecordingEnded([c EXCEPT !.clickId = click.id], "recorded")]
    /\ UNCHANGED links

\* ---------------------------------------------------------------- getStats
Min(a, b) == IF a < b THEN a ELSE b

\* ORDER BY created_at DESC: the orders the store may return the rows in (rows
\* with equal created_at come in any order).
OrderedByCreatedAtDesc(ls) ==
    LET n == Len(ls)
        perms == {f \in [1..n -> 1..n] : \A a, b \in 1..n : a # b => f[a] # f[b]}
        sorted == {f \in perms :
                     \A a, b \in 1..n : a < b => ls[f[a]].createdAt >= ls[f[b]].createdAt}
    IN  {[k \in 1..n |-> ls[f[k]]] : f \in sorted}

\* Mutant: the offset is dropped, every page is the first one.
FindManyNoSkip(ls, skip, take) ==
    {SubSeq(o, 1, Min(take, Len(ls))) : o \in OrderedByCreatedAtDesc(ls)}

\* prisma.link.findMany({ skip, take, orderBy: { createdAt: 'desc' } })
FindMany(ls, skip, take) ==
    {SubSeq(o, skip + 1, Min(skip + take, Len(ls))) : o \in OrderedByCreatedAtDesc(ls)}

\* Mutant: the count is taken of the wrong table.
CountClickRows(ls) == Len(clicks)

\* prisma.link.count()
CountLinks(ls) == Len(ls)

ClicksOf(cs, linkId) == {i \in DOMAIN cs : cs[i].linkId = linkId}

RECURSIVE SumCredit(_, _)
\* SUM(earned_credit) over the rows S of cs: exact DECIMAL(10,2) addition.
SumCredit(cs, S) ==
    IF S = {} THEN 0
    ELSE LET i == CHOOSE j \in S : TRUE
         IN  cs[i].earnedCredit + SumCredit(cs, S \ {i})

\* Mutant: the aggregate is filtered on is_valid.
AggregateValidOnly(cs, linkId) ==
    LET S == {i \in DOMAIN cs : cs[i].linkId = linkId /\ cs[i].isValid}
    IN  [count |-> Cardinality(S),
         sum |-> IF S = {} THEN NoSum ELSE [isNull |-> FALSE, cents |-> SumCredit(cs, S)]]

\* prisma.click.aggregate({ where: { linkId }, _count: true, _sum: { earnedCredit: true } })
\* (_sum is null when there is no row).
Aggregate(cs, linkId) ==
    LET S == ClicksOf(cs, linkId)
    IN  [count |-> Cardinality(S),
         sum |-> IF S = {} THEN NoSum ELSE [isNull |-> FALSE, cents |-> SumCredit(cs, S)]]

\* DATE_TRUNC('month', clicked_at), as months since year 0.
MonthOf(t) == FirstMonth + t

\* Mutant: the raw query counts the valid clicks only.
GroupByMonthValidOnly(cs, linkId) ==
    LET S == {i \in DOMAIN cs : cs[i].linkId = linkId /\ cs[i].isValid}
        months == {MonthOf(cs[i].clickedAt) : i \in S}
        n == Cardinality(months)
        order == CHOOSE f \in [1..n -> months] : \A a, b \in 1..n : a < b => f[a] < f[b]
    IN  [k \in 1..n |->
            LET rows == {i \in S : MonthOf(cs[i].clickedAt) = order[k]}
            IN  [month |-> order[k], clicks |-> Cardinality(rows),
                 earnings |-> SumCredit(cs, rows)]]

\* The raw query: one row per month with a click of the link, month ascending.
GroupByMonth(cs, linkId) ==
    LET S == ClicksOf(cs, linkId)
        months == {MonthOf(cs[i].clickedAt) : i \in S}
        n == Cardinality(months)
        order == CHOOSE f \in [1..n -> months] : \A a, b \in 1..n : a < b => f[a] < f[b]
    IN  [k \in 1..n |->
            LET rows == {i \in S : MonthOf(cs[i].clickedAt) = order[k]}
            IN  [month |-> order[k], clicks |-> Cardinality(rows),
                 earnings |-> SumCredit(cs, rows)]]

\* String(n).padStart(2, '0')
PadStart2(n) == IF n < 10 THEN "0" \o ToString(n) ELSE ToString(n)

\* Number(x).toFixed(2) of an amount of x hundredths (x >= 0).
ToFixed2(cents) == ToString(cents \div 100) \o "." \o PadStart2(cents % 100)

\* Mutant: getUTCMonth() is used as it is, counted from 0.
MonthLabelFromZero(month) == PadStart2(month % 12) \o "/" \o ToString(month \div 12)

\* `${mm}/${yyyy}` with mm = getUTCMonth() + 1 padded, yyyy = getUTCFullYear()
MonthLabel(month) == PadStart2((month % 12) + 1) \o "/" \o ToString(month \div 12)

\* monthlyRaw.map(row => ({ month, clicks: Number(row.clicks), earnings: ...toFixed(2) }))
MonthlyBreakdown(rows) ==
    [k \in DOMAIN rows |->
        [month |-> MonthLabel(rows[k].month), clicks |-> rows[k].clicks,
         earnings |-> ToFixed2(rows[k].earnings)]]

\* (Number(aggregation._sum.earnedCredit) || 0).toFixed(2)
TotalEarnings(sum) == ToFixed2(IF sum.isNull THEN 0 ELSE sum.cents)

\* The object returned for one link of the page.
StatsItem(it) ==
    [shortCode |-> it.link.shortCode, url |-> it.link.targetUrl,
     totalClicks |-> it.count, totalEarnings |-> TotalEarnings(it.sum),
     monthlyBreakdown |-> MonthlyBreakdown(it.monthly)]

\* Mutant: the page count is rounded down.
TotalPagesFloor(totalItems, limit) == totalItems \div limit

\* Math.ceil(totalItems / limit)
TotalPages(totalItems, limit) == (totalItems + limit - 1) \div limit

\* return { data, meta: { page, limit, totalItems, totalPages } }
StatsReturned(c, its) ==
    [Returned(c, NoResult) EXCEPT
        !.items = its,
        !.stats = [data |-> [k \in DOMAIN its |-> StatsItem(its[k])],
                   meta |-> [page |-> c.page, limit |-> c.limit,
                             totalItems |-> c.totalItems,
                             totalPages |-> TotalPages(c.totalItems, c.limit)]]]

\* Both queries of the first Promise.all have answered: links.map starts one
\* async function per link, each issuing its aggregate query; with no link on
\* the page getStats returns at once.
AfterReads(c) ==
    IF c.reads # {} THEN c
    ELSE IF c.pageLinks = <<>> THEN StatsReturned(c, <<>>)
    ELSE [c EXCEPT !.pc = "gs_items",
            !.items = [k \in DOMAIN c.pageLinks |->
                         [stage |-> "aggregate", link |-> c.pageLinks[k], count |-> 0,
                          sum |-> NoSum, monthly |-> <<>>]]]

\* getStats(page, limit) is called: findMany and count are issued together.
StartGetStats(p) ==
    /\ CanStart(p)
    /\ \E page \in Pages, limit \in Limits :
         calls' = [calls EXCEPT ![p] =
                     [IdleCall EXCEPT !.op = "getStats", !.pc = "gs_reads",
                                      !.page = page, !.limit = limit,
                                      !.reads = {"scan", "count"}]]
    /\ UNCHANGED <<links, clicks>>

\* findMany answers.
GetStatsScan(p) ==
    /\ calls[p].pc = "gs_reads"
    /\ "scan" \in calls[p].reads
    /\ \E fault \in BOOLEAN :
       \E rows \in FindMany(links, (calls[p].page - 1) * calls[p].limit, calls[p].limit) :
         LET c == calls[p] IN
         calls' = [calls EXCEPT ![p] =
             IF fault THEN Thrown(c, "Other")
             ELSE AfterReads([c EXCEPT !.reads = c.reads \ {"scan"}, !.pageLinks = rows])]
    /\ UNCHANGED <<links, clicks>>

\* count answers.
GetStatsCount(p) ==
    /\ calls[p].pc = "gs_reads"
    /\ "count" \in calls[p].reads
    /\ \E fault \in BOOLEAN :
         LET c == calls[p] IN
         calls' = [calls EXCEPT ![p] =
             IF fault THEN Thrown(c, "Other")
             ELSE AfterReads([c EXCEPT !.reads = c.reads \ {"count"},
                                       !.totalItems = CountLinks(links)])]
    /\ UNCHANGED <<links, clicks>>

\* The aggregate query of the k-th link answers; its monthly query is issued.
GetStatsAggregate(p, k) ==
    /\ calls[p].pc = "gs_items"
    /\ k \in DOMAIN calls[p].items
    /\ calls[p].items[k].stage = "aggregate"
    /\ \E fault \in BOOLEAN :
         LET c == calls[p]
             agg == Aggregate(clicks, c.items[k].link.id)
         IN  calls' = [calls EXCEPT ![p] =
                 IF fault THEN Thrown(c, "Other")
                 ELSE [c EXCEPT !.items[k].stage = "monthly",
                                !.items[k].count = agg.count,
                                !.items[k].sum = agg.sum]]
    /\ UNCHANGED <<links, clicks>>

\* The monthly query of the k-th link answers; when it was the last one the
\* second Promise.all resolves and getStats returns.
GetStatsMonthly(p, k) ==
    /\ calls[p].pc = "gs_items"
    /\ k \in DOMAIN calls[p].items
    /\ calls[p].items[k].stage = "monthly"
    /\ \E fault \in BOOLEAN :
         LET c == calls[p]
             its == [c.items EXCEPT ![k].stage = "done",
                                    ![k].monthly = GroupByMonth(clicks, c.items[k].link.id)]
         IN  calls' = [calls EXCEPT ![p] =
                 IF fault THEN Thrown(c, "Other")
                 ELSE IF \A j \in DOMAIN its : its[j].stage = "done"
                      THEN StatsReturned(c, its)
                      ELSE [c EXCEPT !.items = its]]
    /\ UNCHANGED <<links, clicks>>

Init ==
    /\ links = <<>>
    /\ clicks = <<>>
    /\ calls = [p \in Procs |-> IdleCall]

Next ==
    \E p \in Procs :
        \/ StartCreateLink(p)
        \/ CreateLinkLookup(p)
        \/ CreateLinkInsert(p)
        \/ CreateLinkReread(p)
        \/ StartRedirect(p)
        \/ StartRecordClick(p)
        \/ RedirectResolve(p)
        \/ RedirectRespond(p)
        \/ RecordClickLookup(p)
        \/ RecordClickValidate(p)
        \/ RecordClickInsert(p)
        \/ StartGetStats(p)
        \/ GetStatsScan(p)
        \/ GetStatsCount(p)
        \/ \E k \in DOMAIN calls[p].items : GetStatsAggregate(p, k)
        \/ \E k \in DOMAIN calls[p].items : GetStatsMonthly(p, k)

Spec == Init /\ [][Next]_vars

\* The links table after createLink calls that inserted rows = <<code, url, t>>,
\* in that order.
StoredLinks(rows) ==
    [i \in DOMAIN rows |->
        [id |-> i, shortCode |-> rows[i][1], targetUrl |-> rows[i][2],
         createdAt |-> rows[i][3]]]

\* The clicks table after recordings that inserted rows = <<linkId, isValid, t>>,
\* in that order.
StoredClicks(rows) ==
    [i \in DOMAIN rows |->
        [id |-> i, linkId |-> rows[i][1], isValid |-> rows[i][2],
         earnedCredit |-> EarnedCredit(rows[i][2]), clickedAt |-> rows[i][3]]]

\* Databases that earlier requests have left behind: one Link clicked in two
\* months (twice in 12/2025, one of them invalid, and once in 01/2026); two
\* Links created in different months, the older with twenty valid clicks, the
\* newer with an invalid one; two Links with equal created_at, one clicked.
Stores ==
    {[links |-> StoredLinks(<< <<"c1", "u1", 0>> >>),
      clicks |-> StoredClicks(<< <<1, TRUE, 0>>, <<1, FALSE, 0>>, <<1, TRUE, 1>> >>)],
     [links |-> StoredLinks(<< <<"c2", "u1", 0>>, <<"c1", "u2", 1>> >>),
      clicks |-> StoredClicks([i \in 1..20 |-> <<1, TRUE, 0>>] \o << <<2, FALSE, 1>> >>)],
     [links |-> StoredLinks(<< <<"c1", "u1", 1>>, <<"c2", "u2", 1>> >>),
      clicks |-> StoredClicks(<< <<2, TRUE, 1>> >>)]}

\* The service is started on a database that already holds data.
InitStored ==
    /\ \E s \in Stores : links = s.links /\ clicks = s.clicks
    /\ calls = [p \in Procs |-> IdleCall]

\* What runs beside getStats and changes what it reads: createLink, and
\* recordClick (a redirect request changes the store only through it).
NextStats ==
    \E p \in Procs :
        \/ StartCreateLink(p)
        \/ CreateLinkLookup(p)
        \/ CreateLinkInsert(p)
        \/ CreateLinkReread(p)
        \/ StartRecordClick(p)
        \/ RecordClickLookup(p)
        \/ RecordClickValidate(p)
        \/ RecordClickInsert(p)
        \/ StartGetStats(p)
        \/ GetStatsScan(p)
        \/ GetStatsCount(p)
        \/ \E k \in DOMAIN calls[p].items : GetStatsAggregate(p, k)
        \/ \E k \in DOMAIN calls[p].items : GetStatsMonthly(p, k)

StatsSpec == InitStored /\ [][NextStats]_vars

\* The calls that write: getStats only reads and is left out.
NextWrites ==
    \E p \in Procs :
        \/ StartCreateLink(p)
        \/ CreateLinkLookup(p)
        \/ CreateLinkInsert(p)
        \/ CreateLinkReread(p)
        \/ StartRedirect(p)
        \/ StartRecordClick(p)
        \/ RedirectResolve(p)
        \/ RedirectRespond(p)
        \/ RecordClickLookup(p)
        \/ RecordClickValidate(p)
        \/ RecordClickInsert(p)

\* The event loop runs a continuation once the call it awaits has answered:
\* every pending step of a redirect request and of its detached recording is
\* eventually taken (the store and the validator answer, possibly by failing).
FairSpec ==
    /\ Init
    /\ [][NextWrites]_vars
    /\ \A p \in Procs :
          /\ WF_vars(RedirectResolve(p))
          /\ WF_vars(RedirectRespond(p))
          /\ WF_vars(RecordClickLookup(p))
          /\ WF_vars(RecordClickValidate(p))
          /\ WF_vars(RecordClickInsert(p))

\* ------------------------------------------------------------- properties
CreateCalls == {p \in Procs : calls[p].op = "createLink"}
RedirectCalls == {p \in Procs : calls[p].op = "redirect"}
LinksFor(url) == {i \in DOMAIN links : links[i].targetUrl = url}
Answers(p) == {calls[p].inserts[k] : k \in DOMAIN calls[p].inserts}

\* C1 (race convergence): whenever a createLink call for a target URL has
\* returned, exactly one Link is persisted for that URL and the call returned
\* that Link's shortCode; so once all the calls for one URL have returned, in
\* any interleaving of their lookups, inserts and re-reads, they all hold the
\* shortCode of the one persisted Link.
RaceConvergence ==
    \A p \in CreateCalls :
        calls[p].outcome = "returned" =>
            /\ Cardinality(LinksFor(calls[p].targetUrl)) = 1
            /\ \A i \in LinksFor(calls[p].targetUrl) :
                   links[i].shortCode = calls[p].result.shortCode

\* Two calls for one URL, neither started after the other returned, both past
\* the lookup (both attempted an insert), both returned.
RaceConvergenceWitness ==
    \E p, q \in CreateCalls :
        /\ p # q
        /\ calls[p].targetUrl = calls[q].targetUrl
        /\ p \notin calls[q].after /\ q \notin calls[p].after
        /\ calls[p].outcome = "returned" /\ calls[q].outcome = "returned"
        /\ calls[p].inserts # <<>> /\ calls[q].inserts # <<>>

\* C2: in every reachable state no two persisted Links have the same targetUrl.
UniqueTargetUrl ==
    \A i, j \in DOMAIN links : links[i].targetUrl = links[j].targetUrl => i = j

\* A second creator of a persisted URL was turned away by the store.
UniqueTargetUrlWitness ==
    /\ Len(links) >= 1
    /\ \E p \in CreateCalls : "target_url" \in Answers(p) /\ calls[p].pc = "done"

\* C3: in every reachable state no two persisted Links have the same shortCode,
\* also when calls generate the same random code.
UniqueShortCode ==
    \A i, j \in DOMAIN links : links[i].shortCode = links[j].shortCode => i = j

\* Two Links are persisted and a call had generated a code that was taken.
UniqueShortCodeWitness ==
    /\ Len(links) = 2
    /\ \E p \in CreateCalls : "short_code" \in Answers(p) /\ calls[p].createdLinkId # 0

\* C4 (dedup idempotence): a createLink call that starts after a call for the
\* same targetUrl has returned attempts no insert, and when it returns it
\* returns that call's shortCode with isNew = false (it fails only when the
\* store fails its lookup).
DedupIdempotence ==
    \A q \in CreateCalls : \A p \in calls[q].after :
        calls[p].targetUrl = calls[q].targetUrl =>
            /\ calls[q].inserts = <<>>
            /\ calls[q].pc \in {"cl_lookup", "done"}
            /\ calls[q].outcome = "returned" =>
                   /\ calls[q].result.shortCode = calls[p].result.shortCode
                   /\ calls[q].result.isNew = FALSE
            /\ calls[q].outcome = "failed" => calls[q].error = "Other"

\* A later call for the URL of a returned call has returned.
DedupIdempotenceWitness ==
    \E q \in CreateCalls : \E p \in calls[q].after :
        /\ calls[p].targetUrl = calls[q].targetUrl
        /\ calls[p].result.isNew
        /\ calls[q].outcome = "returned"

\* C5 (collision bound, exhaustion): a createLink call all of whose inserts
\* failed with a shortCode violation has failed exactly when it has made 3
\* insert attempts; it then threw the store's P2002 error, and it never makes a
\* fourth attempt.
CollisionExhaustion ==
    \A p \in CreateCalls :
        (calls[p].inserts # <<>> /\ Answers(p) = {"short_code"}) =>
            /\ Len(calls[p].inserts) <= 3
            /\ calls[p].outcome # "returned"
            /\ calls[p].outcome = "failed" <=> Len(calls[p].inserts) = 3
            /\ calls[p].outcome = "failed" => calls[p].error = "P2002"
            /\ calls[p].outcome = "pending" => calls[p].pc = "cl_insert"

\* A call failed after three shortCode collisions.
CollisionExhaustionWitness ==
    \E p \in CreateCalls :
        /\ calls[p].inserts = <<"short_code", "short_code", "short_code">>
        /\ calls[p].outcome = "failed"

\* C6 (collision bound, success): a createLink call whose insert succeeded
\* after k shortCode violations, k in 0..2, has made k + 1 insert attempts and
\* no more, and has returned isNew = true with the shortCode and targetUrl of
\* the Link it inserted.
CollisionRetrySuccess ==
    \A p \in CreateCalls :
        LET ins == calls[p].inserts
            n == Len(ins)
        IN  (n >= 1 /\ ins[n] = "ok") =>
                /\ n <= 3
                /\ \A k \in 1..(n - 1) : ins[k] = "short_code"
                /\ calls[p].pc = "done"
                /\ calls[p].outcome = "returned"
                /\ calls[p].result.isNew = TRUE
                /\ calls[p].createdLinkId \in DOMAIN links
                /\ links[calls[p].createdLinkId].targetUrl = calls[p].targetUrl
                /\ calls[p].result.targetUrl = calls[p].targetUrl
                /\ calls[p].result.shortCode = links[calls[p].createdLinkId].shortCode

\* A call succeeded on its third attempt.
CollisionRetrySuccessWitness ==
    \E p \in CreateCalls :
        /\ calls[p].inserts = <<"short_code", "short_code", "ok">>
        /\ calls[p].outcome = "returned"

\* C7 (race resolved): a createLink call one of whose inserts failed with a
\* targetUrl violation, on whichever attempt, goes on to the re-read and then
\* returns the persisted Link's shortCode with isNew = false; it does not fail
\* with the violation (it fails only when the store fails the re-read).
RaceResolved ==
    \A p \in CreateCalls :
        "target_url" \in Answers(p) =>
            /\ calls[p].pc \in {"cl_reread", "done"}
            /\ calls[p].outcome = "failed" => calls[p].error = "Other"
            /\ calls[p].outcome = "returned" =>
                   /\ calls[p].result.isNew = FALSE
                   /\ calls[p].result.targetUrl = calls[p].targetUrl
                   /\ \E i \in LinksFor(calls[p].targetUrl) :
                          links[i].shortCode = calls[p].result.shortCode

\* The targetUrl violation came on the third and last attempt, and the call
\* returned.
RaceResolvedWitness ==
    \E p \in CreateCalls :
        /\ calls[p].inserts = <<"short_code", "short_code", "target_url">>
        /\ calls[p].outcome = "returned"

\* C8 (decoupling): for a redirect request, whenever click recording has been
\* dispatched (and so whenever the validator has been invoked or the Click
\* persisted) the 302 response to the resolved target has already been sent and
\* the handler has completed: it does not wait for the recording.
RedirectBeforeRecording ==
    \A p \in RedirectCalls :
        (\/ calls[p].recording # "none"
         \/ calls[p].validatorCalls > 0
         \/ calls[p].validation # "none"
         \/ calls[p].clickId # 0) =>
            /\ calls[p].response = [status |-> 302, location |-> calls[p].resolved]
            /\ calls[p].resolved \in Urls
            /\ calls[p].handlerDone

\* The handler has completed and answered while the validator is still running.
RedirectBeforeRecordingWitness ==
    \E p \in RedirectCalls :
        /\ calls[p].pc = "rc_validate"
        /\ calls[p].validatorCalls = 1
        /\ calls[p].handlerDone
        /\ calls[p].response.status = 302
        /\ calls[p].clickId = 0

\* C9 (detached failure): when the click recording of a redirect fails (its
\* lookup, the validator or the Click insert), the failure is logged, nothing
\* is thrown to the caller and the response stays the 302 to the target URL.
DetachedFailureLogged ==
    \A p \in RedirectCalls :
        calls[p].recording = "failed" =>
            /\ calls[p].logged
            /\ calls[p].outcome = "returned"
            /\ calls[p].error = "none"
            /\ calls[p].handlerDone
            /\ calls[p].response = [status |-> 302, location |-> calls[p].resolved]
            /\ calls[p].resolved = FindUniqueByShortCode(links, calls[p].shortCode).targetUrl
            /\ calls[p].clickId = 0

\* The validator failed inside a detached recording.
DetachedFailureLoggedWitness ==
    \E p \in RedirectCalls :
        calls[p].recording = "failed" /\ calls[p].validation = "failed"

\* C10 (credit exactness): every persisted Click was written by one recording,
\* carries that recording's validator result as isValid, and has earnedCredit
\* 0.05 when valid and 0.00 when invalid.
CreditExactness ==
    \A i \in DOMAIN clicks :
        /\ clicks[i].earnedCredit = (IF clicks[i].isValid THEN 5 ELSE 0)
        /\ \E p \in Procs :
               /\ calls[p].clickId = i
               /\ calls[p].validation \in {"valid", "invalid"}
               /\ clicks[i].isValid = (calls[p].validation = "valid")

\* A Click of an invalid recording is persisted.
CreditExactnessWitness ==
    \E i \in DOMAIN clicks : clicks[i].isValid = FALSE /\ clicks[i].earnedCredit = 0

RecordClickCalls == {p \in Procs : calls[p].op = "recordClick"}

\* C11 (click on an unknown code): when recordClick's lookup finds no Link for
\* the shortCode (and the store answered), the call returns without an error,
\* the validator is not invoked, no Click is persisted and the store is left
\* as it was; the call stays so ever after.
DroppedClickLookup ==
    \A p \in Procs :
        (/\ calls[p].pc = "rc_lookup"
         /\ calls'[p].pc # "rc_lookup"
         /\ FindUniqueByShortCode(links, calls[p].shortCode) = NoLink
         /\ calls'[p].recording # "failed") =>
            /\ calls'[p].recording = "dropped"
            /\ links' = links
            /\ clicks' = clicks
DroppedClickState ==
    \A p \in Procs :
        calls[p].recording = "dropped" =>
            /\ calls[p].pc = "done"
            /\ calls[p].outcome = "returned"
            /\ calls[p].error = "none"
            /\ ~calls[p].logged
            /\ calls[p].validatorCalls = 0
            /\ calls[p].validation = "none"
            /\ calls[p].linkId = 0
            /\ calls[p].clickId = 0
            /\ \A i \in DOMAIN clicks : \A q \in Procs :
                   calls[q].clickId = i => q # p
DroppedClickNoOp == []DroppedClickState /\ [][DroppedClickLookup]_vars

\* recordClick was called with a code no Link has, while a Link with another
\* code is persisted, and has returned.
DroppedClickNoOpWitness ==
    \E p \in RecordClickCalls :
        /\ calls[p].recording = "dropped"
        /\ calls[p].outcome = "returned"
        /\ Len(links) = 1
        /\ FindUniqueByShortCode(links, calls[p].shortCode) = NoLink

\* C12 (resolve): when resolve's lookup answers, the call returns the targetUrl
\* of the persisted Link that has the shortCode if there is one, and fails with
\* NotFound if there is none; a redirect request whose resolve failed with
\* NotFound is answered 404, no redirect is sent and click recording is never
\* dispatched.
ResolveAnswer ==
    \A p \in Procs :
        (/\ calls[p].pc = "rd_resolve"
         /\ calls'[p].pc # "rd_resolve"
         /\ calls'[p].error # "Other") =>
            IF \E i \in DOMAIN links : links[i].shortCode = calls[p].shortCode
            THEN /\ calls'[p].outcome = "returned"
                 /\ calls'[p].error = "none"
                 /\ \E i \in DOMAIN links :
                        /\ links[i].shortCode = calls[p].shortCode
                        /\ links[i].targetUrl = calls'[p].resolved
            ELSE /\ calls'[p].outcome = "failed"
                 /\ calls'[p].error = "NotFound"
NotFoundNoRedirect ==
    \A p \in RedirectCalls :
        calls[p].error = "NotFound" =>
            /\ calls[p].pc = "done"
            /\ calls[p].handlerDone
            /\ calls[p].response = [status |-> 404, location |-> ""]
            /\ calls[p].resolved = ""
            /\ calls[p].recording = "none"
            /\ calls[p].validatorCalls = 0
            /\ calls[p].clickId = 0
            /\ ~calls[p].logged
ResolveOrNotFound == []NotFoundNoRedirect /\ [][ResolveAnswer]_vars

\* A redirect request for a code no Link has was answered 404 while a Link with
\* another code is persisted.
ResolveOrNotFoundWitness ==
    \E p \in RedirectCalls :
        /\ calls[p].error = "NotFound"
        /\ calls[p].response.status = 404
        /\ Len(links) = 1
        /\ links[1].shortCode # calls[p].shortCode

\* C13 (round trip): once createLink(u) has returned a shortCode, in every later
\* state exactly one persisted Link has that shortCode and its targetUrl is u,
\* and every resolve of that shortCode that starts afterwards returns u (it
\* never fails with NotFound), so a redirect sent for it goes to u.
RoundTrip ==
    \A p \in CreateCalls :
        calls[p].outcome = "returned" =>
            /\ Cardinality({i \in DOMAIN links :
                               links[i].shortCode = calls[p].result.shortCode}) = 1
            /\ \A i \in DOMAIN links :
                   links[i].shortCode = calls[p].result.shortCode =>
                       links[i].targetUrl = calls[p].targetUrl
            /\ \A q \in RedirectCalls :
                   (p \in calls[q].after /\ calls[q].shortCode = calls[p].result.shortCode) =>
                       /\ calls[q].error # "NotFound"
                       /\ calls[q].outcome = "returned" =>
                              calls[q].resolved = calls[p].targetUrl
                       /\ calls[q].response.status = 302 =>
                              calls[q].response.location = calls[p].targetUrl

\* A redirect request that started after createLink returned its shortCode has
\* resolved it and been answered.
RoundTripWitness ==
    \E p \in CreateCalls : \E q \in RedirectCalls :
        /\ p \in calls[q].after
        /\ calls[q].shortCode = calls[p].result.shortCode
        /\ calls[q].outcome = "returned"
        /\ calls[q].response.status = 302

\* The recordings dispatched for the shortCode of a Link: one per redirect sent
\* for it, and one per direct call of recordClick.
RecordingsFor(code) ==
    {p \in Procs : /\ calls[p].shortCode = code
                   /\ \/ calls[p].op = "recordClick"
                      \/ calls[p].op = "redirect" /\ calls[p].response.status = 302}

\* C14 (recording completeness): every redirect request whose resolve is
\* pending while a Link with its shortCode is persisted eventually has its recording ended, with exactly one Click
\* of that Link written by it unless the store or the validator failed (a
\* failure of the resolve query ends the request before any redirect); no
\* recording writes a second Click, none fails on the foreign key, and the
\* Clicks of a Link never outnumber the recordings dispatched for its code.
OneClickState ==
    /\ \A p \in RedirectCalls :
          /\ calls[p].recording # "dropped"
          /\ calls[p].recording = "failed" => calls[p].rejection \in {"Other", "Validator"}
          /\ calls[p].recording # "recorded" => calls[p].clickId = 0
          /\ calls[p].recording = "recorded" =>
                /\ calls[p].clickId \in DOMAIN clicks
                /\ \E i \in DOMAIN links :
                       /\ links[i].shortCode = calls[p].shortCode
                       /\ links[i].id = clicks[calls[p].clickId].linkId
                /\ \A q \in Procs : calls[q].clickId = calls[p].clickId => q = p
    /\ \A i \in DOMAIN links :
          Cardinality({k \in DOMAIN clicks : clicks[k].linkId = links[i].id})
              <= Cardinality(RecordingsFor(links[i].shortCode))
OneClickStep ==
    /\ \A p \in Procs :
          calls'[p].clickId # calls[p].clickId =>
              /\ calls[p].clickId = 0
              /\ Len(clicks') = Len(clicks) + 1
              /\ calls'[p].clickId = Len(clicks')
    /\ clicks' # clicks => \E p \in Procs : calls'[p].clickId # calls[p].clickId
RecordingEnds ==
    \A p \in Procs :
        (/\ calls[p].op = "redirect"
         /\ calls[p].pc = "rd_resolve"
         /\ \E i \in DOMAIN links : links[i].shortCode = calls[p].shortCode)
        ~> (\/ calls[p].recording \in {"recorded", "failed"}
            \/ calls[p].error = "Other")
ExactlyOneClick == []OneClickState /\ [][OneClickStep]_vars /\ RecordingEnds

\* The recording of a redirect has ended with the one Click of the Link.
ExactlyOneClickWitness ==
    \E p \in RedirectCalls :
        /\ calls[p].recording = "recorded"
        /\ Len(clicks) = 1
        /\ clicks[1].linkId = FindUniqueByShortCode(links, calls[p].shortCode).id

StatsCalls == {p \in Procs : calls[p].op = "getStats"}

\* No call has inserted a Link since the service started.
NoLinkWritten == \A q \in Procs : calls[q].createdLinkId = 0

\* No call has inserted a Click since the service started.
NoClickWritten == \A q \in Procs : calls[q].clickId = 0

\* C15 (pagination metadata): a getStats call that has returned carries
\* meta.page and meta.limit as requested, meta.totalItems = the number of
\* persisted Links (never more than are persisted; exactly that number when no
\* Link was inserted meanwhile) and meta.totalPages = the least number of pages
\* of limit items that hold totalItems; a page beyond the available range
\* returns an empty item list with that metadata, and getStats fails only when
\* a store query fails.
StatsMeta ==
    \A p \in StatsCalls :
        /\ calls[p].outcome = "failed" => calls[p].error = "Other"
        /\ calls[p].outcome = "returned" =>
              LET m == calls[p].stats.meta
                  n == Len(links)
              IN  /\ m.page = calls[p].page
                  /\ m.limit = calls[p].limit
                  /\ m.totalItems <= n
                  /\ NoLinkWritten => m.totalItems = n
                  /\ m.totalPages * m.limit >= m.totalItems
                  /\ (m.totalPages - 1) * m.limit < m.totalItems
                  /\ (m.page - 1) * m.limit >= n => calls[p].stats.data = <<>>
                  /\ (NoLinkWritten /\ m.page > m.totalPages) =>
                         calls[p].stats.data = <<>>

\* Page 2 of pages of 2 was asked while one Link is persisted: one page in
\* all, no item, no error.
StatsMetaWitness ==
    \E p \in StatsCalls :
        /\ calls[p].outcome = "returned"
        /\ Len(links) = 1
        /\ calls[p].stats.meta = [page |-> 2, limit |-> 2, totalItems |-> 1, totalPages |-> 1]
        /\ calls[p].stats.data = <<>>

\* The persisted Link an item of a stats page is about.
LinkOfItem(item) == links[CHOOSE i \in DOMAIN links : links[i].shortCode = item.shortCode]
Newer(t) == {i \in DOMAIN links : links[i].createdAt > t}
NotOlder(t) == {i \in DOMAIN links : links[i].createdAt >= t}

\* C16 (page contents): the items of a returned getStats(page, limit) are
\* persisted Links, no Link twice, at most limit of them, most recent first;
\* and when no Link was inserted meanwhile they are exactly the Links at
\* positions (page-1)*limit .. (page-1)*limit + limit - 1 of the list of all
\* Links ordered by createdAt descending (Links with equal createdAt in either
\* order), as many as that list has there.
StatsPage ==
    \A p \in StatsCalls :
        calls[p].outcome = "returned" =>
            LET data == calls[p].stats.data
                limit == calls[p].limit
                offset == (calls[p].page - 1) * limit
                n == Len(links)
            IN  /\ Len(data) <= limit
                /\ \A k \in DOMAIN data : \E i \in DOMAIN links :
                       /\ links[i].shortCode = data[k].shortCode
                       /\ links[i].targetUrl = data[k].url
                /\ \A a, b \in DOMAIN data :
                       /\ a # b => data[a].shortCode # data[b].shortCode
                       /\ a < b => LinkOfItem(data[a]).createdAt >= LinkOfItem(data[b]).createdAt
                /\ NoLinkWritten =>
                       /\ Len(data) = (IF n <= offset THEN 0
                                        ELSE IF n - offset < limit THEN n - offset
                                        ELSE limit)
                       /\ \A k \in DOMAIN data :
                              LET t == LinkOfItem(data[k]).createdAt
                              IN  /\ Cardinality(Newer(t)) <= offset + k - 1
                                  /\ offset + k <= Cardinality(NotOlder(t))

\* Of two Links the older was created first; one call got both on page 1 of
\* pages of 2, newest first, and another got the older one alone on page 2 of
\* pages of 1.
StatsPageWitness ==
    /\ Len(links) = 2
    /\ links[1].createdAt < links[2].createdAt
    /\ \E p, q \in StatsCalls :
          /\ calls[p].outcome = "returned" /\ calls[q].outcome = "returned"
          /\ calls[p].page = 1 /\ calls[p].limit = 2
          /\ Len(calls[p].stats.data) = 2
          /\ calls[p].stats.data[1].shortCode = links[2].shortCode
          /\ calls[p].stats.data[2].shortCode = links[1].shortCode
          /\ calls[q].page = 2 /\ calls[q].limit = 1
          /\ Len(calls[q].stats.data) = 1
          /\ calls[q].stats.data[1].shortCode = links[1].shortCode

\* An amount of hundredths written as a decimal with two fraction digits.
Digit(d) == <<"0", "1", "2", "3", "4", "5", "6", "7", "8", "9">>[d + 1]
Decimal2(cents) ==
    ToString(cents \div 100) \o "." \o Digit((cents % 100) \div 10) \o Digit(cents % 10)

\* The Clicks persisted for a Link, and the exact sum of their earnedCredit
\* (each is 0.05 or 0.00).
ClicksOfLink(link) == {i \in DOMAIN clicks : clicks[i].linkId = link.id}
CreditOf(S) == 5 * Cardinality({i \in S : clicks[i].earnedCredit = 5})

\* C17 (totals): in a returned getStats, when nothing was written to the store
\* meanwhile, each item's totalClicks is the number of persisted Clicks of its
\* Link and its totalEarnings is the exact decimal sum of their earnedCredit
\* with two fraction digits ("1.00" for twenty valid clicks, "0.00" for none
\* that earned); whatever runs meanwhile, totalClicks never exceeds the Clicks
\* persisted.
StatsTotals ==
    \A p \in StatsCalls :
        calls[p].outcome = "returned" =>
            \A k \in DOMAIN calls[p].stats.data :
                LET item == calls[p].stats.data[k]
                    S == ClicksOfLink(LinkOfItem(item))
                IN  /\ \A i \in S : clicks[i].earnedCredit \in {0, 5}
                    /\ item.totalClicks <= Cardinality(S)
                    /\ (NoLinkWritten /\ NoClickWritten) =>
                           /\ item.totalClicks = Cardinality(S)
                           /\ item.totalEarnings = Decimal2(CreditOf(S))

\* One page holds a Link with twenty valid Clicks, "1.00", and a Link whose one
\* Click is invalid, "0.00".
StatsTotalsWitness ==
    \E p \in StatsCalls :
        /\ calls[p].outcome = "returned"
        /\ NoLinkWritten /\ NoClickWritten
        /\ \E a, b \in DOMAIN calls[p].stats.data :
              /\ calls[p].stats.data[a].totalClicks = 20
              /\ calls[p].stats.data[a].totalEarnings = "1.00"
              /\ calls[p].stats.data[b].totalClicks = 1
              /\ calls[p].stats.data[b].totalEarnings = "0.00"

\* The calendar month of a clock value, as MM/YYYY: the clock starts in
\* December 2025 and advances a month at a time.
LabelOfTick(t) == <<"12/2025", "01/2026", "02/2026", "03/2026">>[t + 1]
ClicksInMonth(S, t) == {i \in S : clicks[i].clickedAt = t}

\* C18 (monthly breakdown): in a returned getStats, when nothing was written
\* meanwhile, each item's monthlyBreakdown has exactly one entry for every
\* month in which its Link has a Click and no other entry, labelled MM/YYYY,
\* with that month's number of Clicks and summed earnings (two fraction
\* digits), months ascending (12/2025 before 01/2026); in any case every entry
\* counts at least one Click and no month appears twice.
StatsMonthly ==
    \A p \in StatsCalls :
        calls[p].outcome = "returned" =>
            \A k \in DOMAIN calls[p].stats.data :
                LET item == calls[p].stats.data[k]
                    mb == item.monthlyBreakdown
                    S == ClicksOfLink(LinkOfItem(item))
                    months == {clicks[i].clickedAt : i \in S}
                IN  /\ \A a \in DOMAIN mb : mb[a].clicks >= 1
                    /\ \A a, b \in DOMAIN mb : a # b => mb[a].month # mb[b].month
                    /\ (NoLinkWritten /\ NoClickWritten) =>
                           /\ Len(mb) = Cardinality(months)
                           /\ \A t \in months : \E a \in DOMAIN mb :
                                  /\ mb[a].month = LabelOfTick(t)
                                  /\ mb[a].clicks = Cardinality(ClicksInMonth(S, t))
                                  /\ mb[a].earnings = Decimal2(CreditOf(ClicksInMonth(S, t)))
                           /\ \A a, b \in DOMAIN mb : \A t, u \in months :
                                  (a < b /\ mb[a].month = LabelOfTick(t)
                                         /\ mb[b].month = LabelOfTick(u)) => t < u

\* A Link clicked twice in December 2025 (once validly) and once, validly, in
\* January 2026.
StatsMonthlyWitness ==
    \E p \in StatsCalls :
        /\ calls[p].outcome = "returned"
        /\ NoLinkWritten /\ NoClickWritten
        /\ \E k \in DOMAIN calls[p].stats.data :
              calls[p].stats.data[k].monthlyBreakdown =
                  <<[month |-> "12/2025", clicks |-> 2, earnings |-> "0.05"],
                    [month |-> "01/2026", clicks |-> 1, earnings |-> "0.05"]>>

\* C19 (POST /links): the handler answers exactly when createLink returned:
\* 201 exactly when createLink reported isNew = true (the call inserted the
\* Link) and 200 when it reported an existing Link; the body's shortUrl is the
\* base URL, "/" and the returned shortCode, and its targetUrl is the targetUrl
\* of the persisted Link with that shortCode.
PostLinksStatus ==
    \A p \in CreateCalls :
        LET c == calls[p] IN
        /\ c.posted.status \in {0, 200, 201}
        /\ c.posted.status # 0 <=> c.outcome = "returned"
        /\ c.posted.status = 201 <=> (c.outcome = "returned" /\ c.result.isNew)
        /\ c.posted.status = 201 => c.createdLinkId # 0
        /\ c.posted.status = 200 => c.createdLinkId = 0
        /\ c.outcome = "returned" =>
              /\ c.posted.shortUrl = "http://localhost:3000/" \o c.result.shortCode
              /\ c.posted.targetUrl = c.targetUrl
              /\ \E i \in DOMAIN links :
                     /\ links[i].shortCode = c.result.shortCode
                     /\ links[i].targetUrl = c.posted.targetUrl

\* Two requests for one URL were answered, one 201 and one 200, with the same
\* shortUrl.
PostLinksStatusWitness ==
    \E p, q \in CreateCalls :
        /\ calls[p].posted.status = 201
        /\ calls[q].posted.status = 200
        /\ calls[p].posted.shortUrl = calls[q].posted.shortUrl
        /\ calls[p].posted.targetUrl = calls[q].posted.targetUrl

\* C20 (referential integrity): every persisted Click's linkId is the id of a
\* persisted Link, and that Link is the one the writing recording found for
\* its shortCode: it has the shortCode recordClick was called with.
ClickLinkIntegrity ==
    \A i \in DOMAIN clicks :
        /\ Cardinality({j \in DOMAIN links : links[j].id = clicks[i].linkId}) = 1
        /\ \E p \in Procs :
              /\ calls[p].clickId = i
              /\ calls[p].linkId = clicks[i].linkId
              /\ \A j \in DOMAIN links :
                     links[j].id = clicks[i].linkId =>
                         links[j].shortCode = calls[p].shortCode

\* A Click is persisted for a Link; the recording that wrote it had looked the
\* Link's shortCode up.
ClickLinkIntegrityWitness ==
    \E i \in DOMAIN clicks : \E p \in Procs :
        /\ calls[p].clickId = i
        /\ calls[p].recording = "recorded"
        /\ \E j \in DOMAIN links :
               links[j].id = clicks[i].linkId /\ links[j].shortCode = calls[p].shortCode

\* C21 (other persistence failures): a createLink call one of whose inserts
\* failed with a failure that is no uniqueness violation made that insert last,
\* on whichever attempt, and has failed with that error: no code was
\* regenerated, no further insert attempted, no re-read made.
InsertFailurePropagates ==
    \A p \in CreateCalls :
        LET ins == calls[p].inserts
            n == Len(ins)
        IN  "other" \in Answers(p) =>
                /\ ins[n] = "other"
                /\ \A k \in 1..(n - 1) : ins[k] = "short_code"
                /\ n <= 3
                /\ calls[p].attempt = n - 1
                /\ calls[p].pc = "done"
                /\ calls[p].outcome = "failed"
                /\ calls[p].error = "Other"
                /\ calls[p].createdLinkId = 0
                /\ calls[p].posted.status = 0

\* The store failed the second insert of a call, after a shortCode collision.
InsertFailurePropagatesWitness ==
    \E p \in CreateCalls :
        /\ calls[p].inserts = <<"short_code", "other">>
        /\ calls[p].outcome = "failed"

\* C22 (append-only): no step of any operation removes a persisted Link or
\* Click or changes a field of one: every row persisted before a step is
\* persisted after it, unchanged, and a step adds at most one row.
RowsKept ==
    /\ \A i \in DOMAIN links : i \in DOMAIN links' /\ links'[i] = links[i]
    /\ \A i \in DOMAIN clicks : i \in DOMAIN clicks' /\ clicks'[i] = clicks[i]
    /\ Len(links') + Len(clicks') <= Len(links) + Len(clicks) + 1
AppendOnly == [][RowsKept]_vars

\* A second Link was inserted beside the first.
AppendOnlyWitness ==
    /\ Len(links) = 2
    /\ links[1].id = 1 /\ links[2].id = 2
    /\ \E p, q \in CreateCalls :
          calls[p].createdLinkId = 1 /\ calls[q].createdLinkId = 2

\* C23 (read-only): every step of resolve (the request's arrival and the
\* lookup's answer, whether it returns or throws) and every step of getStats
\* (its arrival and each of its queries' answers, whether it returns or
\* throws) leaves the persisted Links and Clicks as they were and does not
\* invoke the fraud validator; a getStats call never invokes it nor writes,
\* and a redirect request has invoked nothing and written nothing until its
\* recording has been dispatched.
ReadStep(p) ==
    /\ calls'[p] # calls[p]
    /\ \/ calls[p].pc \in {"rd_resolve", "gs_reads", "gs_items"}
       \/ calls[p].pc = "idle" /\ calls'[p].op \in {"redirect", "getStats"}
ReadStepsKeepStore ==
    \A p \in Procs :
        ReadStep(p) =>
            /\ links' = links
            /\ clicks' = clicks
            /\ calls'[p].validatorCalls = calls[p].validatorCalls
            /\ calls'[p].validation = calls[p].validation
            /\ calls'[p].clickId = calls[p].clickId
            /\ calls'[p].recording = calls[p].recording
ReadCallsState ==
    \A p \in Procs :
        (\/ calls[p].op = "getStats"
         \/ calls[p].op = "redirect" /\ calls[p].recording = "none") =>
            /\ calls[p].validatorCalls = 0
            /\ calls[p].validation = "none"
            /\ calls[p].clickId = 0
            /\ calls[p].createdLinkId = 0
            /\ calls[p].linkId = 0
ReadOnly == []ReadCallsState /\ [][ReadStepsKeepStore]_vars

\* With a Link persisted, a resolve has returned its targetUrl and the handler
\* has not yet answered: nothing validated, nothing written.
ReadOnlyWitness ==
    /\ Len(links) = 1
    /\ \E p \in RedirectCalls :
          /\ calls[p].pc = "rd_respond"
          /\ calls[p].outcome = "returned"
          /\ calls[p].resolved = links[1].targetUrl
          /\ calls[p].validatorCalls = 0

\* C24 (no retry on targetUrl): within one createLink call the insert that
\* failed with a targetUrl uniqueness violation is the call's last insert
\* attempt; the violation does not advance the attempt counter and the call
\* never fails as if by shortCode collisions (with the P2002 error or out of
\* retries).
TargetUrlNeverRetried ==
    \A p \in CreateCalls :
        LET ins == calls[p].inserts
            n == Len(ins)
        IN  \A k \in DOMAIN ins :
                ins[k] = "target_url" =>
                    /\ k = n
                    /\ calls[p].attempt = k - 1
                    /\ calls[p].pc \in {"cl_reread", "done"}
                    /\ calls[p].error \notin {"P2002", "Exhausted"}
                    /\ calls[p].createdLinkId = 0

\* The first insert of a call met a targetUrl violation and the call has
\* returned the existing Link.
TargetUrlNeverRetriedWitness ==
    \E p \in CreateCalls :
        /\ calls[p].inserts = <<"target_url">>
        /\ calls[p].outcome = "returned"
        /\ calls[p].posted.status = 200

\* C25 (one creator): among the createLink calls for one targetUrl, in any
\* interleaving, at most one has returned isNew = true, and it is the call
\* whose insert created the persisted Link of that targetUrl; every other call
\* that returned made no Link and returned isNew = false.
SingleCreator ==
    \A p \in CreateCalls :
        calls[p].outcome = "returned" =>
            /\ calls[p].result.isNew <=> calls[p].createdLinkId # 0
            /\ calls[p].result.isNew =>
                  /\ calls[p].createdLinkId \in DOMAIN links
                  /\ links[calls[p].createdLinkId].targetUrl = calls[p].targetUrl
                  /\ \A q \in CreateCalls :
                         (/\ q # p
                          /\ calls[q].targetUrl = calls[p].targetUrl
                          /\ calls[q].outcome = "returned") =>
                             /\ ~calls[q].result.isNew
                             /\ calls[q].result.shortCode = calls[p].result.shortCode

\* Two calls for one URL both missed the lookup; one inserted the Link and
\* returned isNew = true, the other lost the race and returned isNew = false.
SingleCreatorWitness ==
    \E p, q \in CreateCalls :
        /\ calls[p].targetUrl = calls[q].targetUrl
        /\ calls[p].outcome = "returned" /\ calls[p].result.isNew
        /\ calls[q].outcome = "returned" /\ ~calls[q].result.isNew
        /\ "target_url" \in Answers(q)

\* The amount, in hundredths, that a two-digit decimal of a stats response
\* denotes: a sum of credits of 0.05, of no more Clicks than are persisted.
CentsOf(text) == 5 * (CHOOSE v \in 0..Len(clicks) : Decimal2(5 * v) = text)
RECURSIVE SumOver(_, _)
SumOver(f, S) ==
    IF S = {} THEN 0
    ELSE LET a == CHOOSE x \in S : TRUE IN f[a] + SumOver(f, S \ {a})

MonthlyClicks(item) ==
    SumOver([a \in DOMAIN item.monthlyBreakdown |-> item.monthlyBreakdown[a].clicks],
            DOMAIN item.monthlyBreakdown)
MonthlyEarnings(item) ==
    SumOver([a \in DOMAIN item.monthlyBreakdown |->
                CentsOf(item.monthlyBreakdown[a].earnings)],
            DOMAIN item.monthlyBreakdown)

\* C26 as amended (totals against months): in every returned getStats, for
\* each item the click counts of its monthlyBreakdown entries sum to at least
\* its totalClicks and to at most the Clicks persisted for its Link, and their
\* earnings sum to at least its totalEarnings; the sums equal the totals
\* whenever no Click of the Link was persisted after the totals were read.
MonthlySumsCoverTotals ==
    \A p \in StatsCalls :
        calls[p].outcome = "returned" =>
            \A k \in DOMAIN calls[p].stats.data :
                LET item == calls[p].stats.data[k]
                    S == ClicksOfLink(LinkOfItem(item))
                    persisted == Cardinality(S)
                    monthlyClicks == MonthlyClicks(item)
                    monthlyEarnings == MonthlyEarnings(item)
                    totalEarnings == CentsOf(item.totalEarnings)
                IN  /\ item.totalClicks <= monthlyClicks
                    /\ monthlyClicks <= persisted
                    /\ totalEarnings <= monthlyEarnings
                    /\ monthlyEarnings <= CreditOf(S)
                    /\ persisted = item.totalClicks =>
                           /\ monthlyClicks = item.totalClicks
                           /\ monthlyEarnings = totalEarnings

\* A recordClick persisted a valid Click of the Link between the two queries
\* of an item: the months count one Click and 0.05 more than the totals.
MonthlySumsCoverTotalsWitness ==
    \E p \in StatsCalls :
        /\ calls[p].outcome = "returned"
        /\ \E k \in DOMAIN calls[p].stats.data :
              LET item == calls[p].stats.data[k] IN
              /\ MonthlyClicks(item) = item.totalClicks + 1
              /\ MonthlyEarnings(item) = CentsOf(item.totalEarnings) + 5

\* C26 as stated (totals against months): in every returned getStats, for each
\* item the click counts of its monthlyBreakdown entries sum to its
\* totalClicks and their earnings sum to its totalEarnings, also when
\* recordClick calls for the Link ran beside the getStats call.
MonthlySumsToTotals ==
    \A p \in StatsCalls :
        calls[p].outcome = "returned" =>
            \A k \in DOMAIN calls[p].stats.data :
                LET item == calls[p].stats.data[k]
                IN  /\ MonthlyClicks(item) = item.totalClicks
                    /\ MonthlyEarnings(item) = CentsOf(item.totalEarnings)

\* The number of items the metadata lets one expect on the page.
ItemsExpected(m) ==
    LET rest == m.totalItems - (m.page - 1) * m.limit
    IN  IF rest <= 0 THEN 0 ELSE IF rest < m.limit THEN rest ELSE m.limit

\* The Links inserted since the service started.
LinksWritten == Cardinality({q \in Procs : calls[q].createdLinkId # 0})

\* C27 as amended (page against metadata): in every returned getStats the
\* number of items is at most limit and at most the Links persisted beyond
\* the offset, totalItems is at most the Links persisted, and the number of
\* items differs from min(limit, max(0, totalItems - (page-1)*limit)) by no
\* more than the number of Links inserted meanwhile: it equals it, and no
\* page greater than totalPages has an item, when no Link was inserted.
PageNearMeta ==
    \A p \in StatsCalls :
        calls[p].outcome = "returned" =>
            LET m == calls[p].stats.meta
                n == Len(calls[p].stats.data)
                beyond == Len(links) - (m.page - 1) * m.limit
            IN  /\ n <= m.limit
                /\ n <= (IF beyond <= 0 THEN 0 ELSE beyond)
                /\ m.totalItems <= Len(links)
                /\ n <= ItemsExpected(m) + LinksWritten
                /\ ItemsExpected(m) <= n + LinksWritten
                /\ LinksWritten = 0 =>
                      /\ n = ItemsExpected(m)
                      /\ m.page > m.totalPages => n = 0

\* The count was read with one Link persisted, a createLink then inserted a
\* second, and the scan found an item on page 2 of what the metadata calls
\* one page.
PageNearMetaWitness ==
    \E p \in StatsCalls :
        /\ calls[p].outcome = "returned"
        /\ calls[p].stats.meta = [page |-> 2, limit |-> 1, totalItems |-> 1, totalPages |-> 1]
        /\ Len(calls[p].stats.data) = 1
        /\ LinksWritten = 1

\* C27 as stated (page against metadata): in every returned getStats the
\* number of items equals min(limit, max(0, totalItems - (page-1)*limit)), so
\* no page greater than totalPages has an item, also when createLink calls ran
\* beside the getStats call.
PageMatchesMeta ==
    \A p \in StatsCalls :
        calls[p].outcome = "returned" =>
            LET m == calls[p].stats.meta
                n == Len(calls[p].stats.data)
            IN  /\ n = ItemsExpected(m)
                /\ m.page > m.totalPages => n = 0

\* A step in which the validator of call p fails leaves the store as it was.
ValidatorFailureKeepsStore ==
    \A p \in Procs :
        (calls[p].validation = "none" /\ calls'[p].validation = "failed") =>
            /\ links' = links
            /\ clicks' = clicks
            /\ calls'[p].pc = "done"

\* What holds of every call while and after its validator is asked.
ValidatedBeforeInsert ==
    \A p \in Procs :
        /\ calls[p].validatorCalls <= 1
        /\ calls[p].validation # "none" => calls[p].validatorCalls = 1
        /\ calls[p].validation = "failed" =>
              /\ calls[p].clickId = 0
              /\ calls[p].recording = "failed"
              /\ calls[p].rejection = "Validator"
              /\ calls[p].pc = "done"
        /\ (calls[p].pc = "rc_insert" \/ calls[p].clickId # 0) =>
              calls[p].validation \in {"valid", "invalid"}

\* C28 (validator failure): a failure of the fraud validator ends the
\* recording with no Click persisted and the store unchanged; prisma.click.create
\* is reached, and a Click persisted, only after the validator returned a
\* boolean; and one recordClick call invokes the validator at most once.
ValidatorFailureNoClick ==
    []ValidatedBeforeInsert /\ [][ValidatorFailureKeepsStore]_vars

\* A direct recordClick found its Link and its validator failed: no Click.
ValidatorFailureNoClickWitness ==
    \E p \in Procs :
        /\ calls[p].op = "recordClick"
        /\ calls[p].validation = "failed"
        /\ calls[p].validatorCalls = 1
        /\ calls[p].clickId = 0
        /\ calls[p].linkId # 0
        /\ Len(links) = 1
        /\ clicks = <<>>

====
